---------------------------- MODULE Spec2Model ----------------------------
(* A model of section_profiler.hpp: the scoped SectionProfiler tracker, the  *)
(* shared Stats tree behind get_root_stats(), the global mutex and the       *)
(* per-thread active_stack().                                                *)
(*                                                                           *)
(* Durations are whole clock ticks: the clock is a counter, and the double   *)
(* arithmetic of the statistics is exact integer arithmetic on ticks.        *)
(* Quotients (average, variance, percentage) are kept as numerator and       *)
(* denominator.                                                              *)
EXTENDS Integers, Sequences, FiniteSets

\* ------------------------------------------------------------------ bounds
NumThreads  == 2
MaxTrackers == 3
MaxTime     == 2
MaxReports  == 1

Threads == 1..NumThreads
Names   == {"a", "b"}

\* std::numeric_limits<double>::infinity(), the initial min_time
Infinity == 1000000

\* nullptr, for Stats* and for the "no thread" owner of the mutex
Null == 0

VARIABLES
    now,           \* high_resolution_clock::now()
    root,          \* get_root_stats(): the set of Stats nodes linked in the root table
    stats,         \* the heap of Stats nodes, by address 1..Len(stats)
    mutex,         \* get_mutex(): Null when free, else the thread that holds it
    pc,            \* per thread: where it is in a constructor, destructor or report
    tracker,       \* every SectionProfiler object ever constructed, by address
    active_stack,  \* per thread: active_stack(), a sequence of SectionProfiler*
    this,          \* per thread: the tracker whose constructor/destructor is running
    found,         \* per thread: what operator[]'s lookup returned (Null: absent)
    seen,          \* per thread: the entries operator[]'s lookup saw in the map
    frames,        \* the call stack of print_stats during a report
    out,           \* the rows the running report has written so far
    snap,          \* the tree as it was when the running report took the mutex
    nreports       \* number of report() calls started

vars == <<now, root, stats, mutex, pc, tracker, active_stack, this, found, seen,
          frames, out, snap, nreports>>

\* ------------------------------------------------------------- pure helpers
Min(a, b) == IF a <= b THEN a ELSE b
Max(a, b) == IF a >= b THEN a ELSE b

NodeIds == 1..Len(stats)

\* struct Stats, default member initialisers; name is the key it is stored under
NewStats(n) ==
    [name |-> n, total_time |-> 0, call_count |-> 0, min_time |-> Infinity,
     max_time |-> 0, sum_squares |-> 0, children |-> {}]

\* the unordered_map a tracker with this parent_stats looks its name up in
MapOf(parent) == IF parent = Null THEN root ELSE stats[parent].children

\* the entries of a map stored under a key
Lookup(map, n) == {s \in map : stats[s].name = n}

\* the update of lines 39-43 without line 40
Record_NoCount(s, d) ==
    [s EXCEPT !.total_time = @ + d,
              !.min_time = Min(@, d),
              !.max_time = Max(@, d),
              !.sum_squares = @ + d * d]

\* the update of lines 39-43 with std::min in line 42
Record_MaxAsMin(s, d) ==
    [s EXCEPT !.total_time = @ + d,
              !.call_count = @ + 1,
              !.min_time = Min(@, d),
              !.max_time = Min(@, d),
              !.sum_squares = @ + d * d]

\* line 39 as an assignment instead of +=
Record_Assign(s, d) ==
    [s EXCEPT !.total_time = d,
              !.call_count = @ + 1,
              !.min_time = Min(@, d),
              !.max_time = Max(@, d),
              !.sum_squares = @ + d * d]

\* lines 39-43 done by assigning a fresh Stats value, which empties children
Record_FreshNode(s, d) ==
    [s EXCEPT !.total_time = @ + d,
              !.call_count = @ + 1,
              !.min_time = Min(@, d),
              !.max_time = Max(@, d),
              !.sum_squares = @ + d * d,
              !.children = {}]

\* the update of lines 39-43
Record(s, d) ==
    [s EXCEPT !.total_time = @ + d,
              !.call_count = @ + 1,
              !.min_time = Min(@, d),
              !.max_time = Max(@, d),
              !.sum_squares = @ + d * d]

\* the live (constructed, not yet destroyed) trackers of a thread
Armed(t) == {k \in 1..Len(tracker) : tracker[k].owner = t /\ tracker[k].state = "armed"}

\* scope exit destroying the oldest live tracker first
SetMin(S) == CHOOSE x \in S : \A y \in S : x <= y

\* scope exit destroys the live trackers of a thread last constructed first
SetMax(S) == CHOOSE x \in S : \A y \in S : y <= x

\* a stack shared by all threads: the top of any non-empty stack
ParentStats_AnyThread(t) ==
    IF \A u \in Threads : active_stack[u] = <<>> THEN Null
    ELSE LET u == CHOOSE v \in Threads : active_stack[v] # <<>>
         IN  tracker[active_stack[u][Len(active_stack[u])]].current_stats

\* line 20: parent_stats from the top of the calling thread's active_stack()
ParentStats(t) ==
    IF active_stack[t] = <<>> THEN Null
    ELSE tracker[active_stack[t][Len(active_stack[t])]].current_stats

\* the end time taken for the duration
Duration_FromEpoch(start, end) == end

\* line 34: end - start, in clock ticks
Duration(start, end) == end - start

\* a lock that is taken by hand and never given back
Unlock_Held(t) == t

\* lines 46 and 53: the lock_guard's destructor releases the mutex
Unlock(t) == Null

\* line 29: std::stack::push
Push(st, k) == Append(st, k)

\* a pop at the wrong end
Pop_Front(st) == SubSeq(st, 2, Len(st))

\* line 45: std::stack::pop
Pop(st) == SubSeq(st, 1, Len(st) - 1)

\* --------------------------------------------------------------------- Init
Init ==
    /\ now = 0
    /\ root = {}
    /\ stats = <<>>
    /\ mutex = Null
    /\ pc = [t \in Threads |-> "idle"]
    /\ tracker = <<>>
    /\ active_stack = [t \in Threads |-> <<>>]
    /\ this = [t \in Threads |-> Null]
    /\ found = [t \in Threads |-> Null]
    /\ seen = [t \in Threads |-> {}]
    /\ frames = <<>>
    /\ out = <<>>
    /\ snap = <<>>
    /\ nreports = 0

\* the clock advances
Tick ==
    /\ now < MaxTime
    /\ now' = now + 1
    /\ UNCHANGED <<root, stats, mutex, pc, tracker, active_stack, this, found, seen,
                   frames, out, snap, nreports>>

\* ------------------------------------------------------------- constructor
\* Lines 17-27, up to and including the lookup inside operator[]: the member
\* initialisers, parent_stats from the top of this thread's stack, and the
\* search of the parent's children map (or the root table) for the name.
\* No mutex is taken.
CtorFind(t, n) ==
    /\ pc[t] = "idle"
    /\ Len(tracker) < MaxTrackers
    /\ LET parent == ParentStats(t)
           hits   == Lookup(MapOf(parent), n)
       IN  /\ tracker' = Append(tracker,
                  [name |-> n, start |-> now, parent_stats |-> parent,
                   current_stats |-> Null, owner |-> t, state |-> "ctor",
                   duration |-> 0])
           /\ seen' = [seen EXCEPT ![t] = MapOf(parent)]
           /\ IF hits = {} THEN found' = [found EXCEPT ![t] = Null]
              ELSE \E s \in hits : found' = [found EXCEPT ![t] = s]
    /\ this' = [this EXCEPT ![t] = Len(tracker) + 1]
    /\ pc' = [pc EXCEPT ![t] = "ctor"]
    /\ UNCHANGED <<now, root, stats, mutex, active_stack, frames, out, snap, nreports>>

\* Lines 24/26 (the rest of operator[]) and line 29: when the lookup found no
\* entry a new Stats node is linked into the map, then current_stats is set
\* and the tracker is pushed.  The insertion is not synchronised with the
\* lookup: entries that other threads linked into the same map in between
\* may stay beside the new node (even under the same key) or be unlinked by
\* the stale write.
CtorLink(t) ==
    /\ pc[t] = "ctor"
    /\ LET k      == this[t]
           parent == tracker[k].parent_stats
           new    == Len(stats) + 1
       IN  IF found[t] # Null
           THEN /\ tracker' = [tracker EXCEPT ![k].current_stats = found[t],
                                              ![k].state = "armed"]
                /\ UNCHANGED <<root, stats>>
           ELSE /\ tracker' = [tracker EXCEPT ![k].current_stats = new,
                                              ![k].state = "armed"]
                /\ \E lost \in SUBSET (MapOf(parent) \ seen[t]) :
                     IF parent = Null
                     THEN /\ root' = (root \ lost) \cup {new}
                          /\ stats' = Append(stats, NewStats(tracker[k].name))
                     ELSE /\ root' = root
                          /\ stats' = Append(
                                 [stats EXCEPT ![parent].children = (@ \ lost) \cup {new}],
                                 NewStats(tracker[k].name))
    /\ active_stack' = [active_stack EXCEPT ![t] = Push(@, this[t])]
    /\ this' = [this EXCEPT ![t] = Null]
    /\ found' = [found EXCEPT ![t] = Null]
    /\ seen' = [seen EXCEPT ![t] = {}]
    /\ pc' = [pc EXCEPT ![t] = "idle"]
    /\ UNCHANGED <<now, mutex, frames, out, snap, nreports>>

\* -------------------------------------------------------------- destructor
\* Lines 33-34: the most recently constructed live tracker of the thread goes
\* out of scope; its duration is end - start.
DtorEnter(t) ==
    /\ pc[t] = "idle"
    /\ Armed(t) # {}
    /\ LET k == SetMax(Armed(t))
       IN  /\ tracker' = [tracker EXCEPT ![k].state = "dtor",
                                         ![k].duration = Duration(tracker[k].start, now)]
           /\ this' = [this EXCEPT ![t] = k]
    /\ pc' = [pc EXCEPT ![t] = "dtor_wait"]
    /\ UNCHANGED <<now, root, stats, mutex, active_stack, found, seen,
                   frames, out, snap, nreports>>

\* Line 36: std::lock_guard takes the mutex
DtorLock(t) ==
    /\ pc[t] = "dtor_wait"
    /\ mutex = Null
    /\ mutex' = t
    /\ pc' = [pc EXCEPT ![t] = "dtor_cs"]
    /\ UNCHANGED <<now, root, stats, tracker, active_stack, this, found, seen,
                   frames, out, snap, nreports>>

\* Lines 39-46: the statistics update, the pop, and the release of the mutex
DtorRecord(t) ==
    /\ pc[t] = "dtor_cs"
    /\ LET k == this[t]
           s == tracker[k].current_stats
       IN  /\ stats' = [stats EXCEPT ![s] = Record(@, tracker[k].duration)]
           /\ tracker' = [tracker EXCEPT ![k].state = "settled", ![k].start = 0]
    /\ active_stack' = [active_stack EXCEPT ![t] = Pop(@)]
    /\ this' = [this EXCEPT ![t] = Null]
    /\ mutex' = Unlock(t)
    /\ pc' = [pc EXCEPT ![t] = "idle"]
    /\ UNCHANGED <<now, root, found, seen, frames, out, snap, nreports>>

\* ------------------------------------------------------------------ report
\* Row with line 91 taking the "no baseline" branch for every node
Row_NoBaseline(s, indent, parent_time) ==
    LET st  == stats[s]
        cnt == st.call_count
    IN  [kind     |-> "row",
         node     |-> s,
         name     |-> st.name,
         indent   |-> indent,
         total    |-> st.total_time,
         avg      |-> IF cnt # 0 THEN <<st.total_time, cnt>> ELSE <<0, 1>>,
         min      |-> IF st.min_time = Infinity THEN 0 ELSE st.min_time,
         max      |-> st.max_time,
         variance |-> IF cnt # 0
                      THEN <<Max(0, st.sum_squares * cnt - st.total_time * st.total_time),
                             cnt * cnt>>
                      ELSE <<0, 1>>,
         pct      |-> <<100, 1>>]

\* Row with line 95 writing min_time as stored
Row_RawMin(s, indent, parent_time) ==
    LET st  == stats[s]
        cnt == st.call_count
    IN  [kind     |-> "row",
         node     |-> s,
         name     |-> st.name,
         indent   |-> indent,
         total    |-> st.total_time,
         avg      |-> IF cnt # 0 THEN <<st.total_time, cnt>> ELSE <<0, 1>>,
         min      |-> st.min_time,
         max      |-> st.max_time,
         variance |-> IF cnt # 0
                      THEN <<Max(0, st.sum_squares * cnt - st.total_time * st.total_time),
                             cnt * cnt>>
                      ELSE <<0, 1>>,
         pct      |-> IF parent_time > 0 THEN <<st.total_time * 100, parent_time>>
                      ELSE <<100, 1>>]

\* One line of print_stats (lines 88-98) for node s under baseline parent_time.
\* avg, variance and pct are quotients, kept as <<numerator, denominator>>;
\* stddev is sqrt of the clamped variance, kept as that clamped variance.
Row(s, indent, parent_time) ==
    LET st  == stats[s]
        cnt == st.call_count
    IN  [kind     |-> "row",
         node     |-> s,
         name     |-> st.name,
         indent   |-> indent,
         total    |-> st.total_time,
         avg      |-> IF cnt # 0 THEN <<st.total_time, cnt>> ELSE <<0, 1>>,
         min      |-> IF st.min_time = Infinity THEN 0 ELSE st.min_time,
         max      |-> st.max_time,
         variance |-> IF cnt # 0
                      THEN <<Max(0, st.sum_squares * cnt - st.total_time * st.total_time),
                             cnt * cnt>>
                      ELSE <<0, 1>>,
         pct      |-> IF parent_time > 0 THEN <<st.total_time * 100, parent_time>>
                      ELSE <<100, 1>>]

\* print_stats returns from every call whose loop has no entry left
RECURSIVE Unwind(_)
Unwind(fs) ==
    IF fs # <<>> /\ fs[Len(fs)].pending = {}
    THEN Unwind(SubSeq(fs, 1, Len(fs) - 1))
    ELSE fs

\* Lines 49-51: take the mutex, write the banner, call print_stats on the root
\* table with indent "" and parent_time 0.0
ReportEnter(t) ==
    /\ pc[t] = "idle"
    /\ mutex = Null
    /\ mutex' = t
    /\ out' = <<[kind |-> "open"]>>
    /\ frames' = Unwind(<<[pending |-> root, indent |-> 0, parent_time |-> 0]>>)
    /\ snap' = <<[root |-> root, stats |-> stats]>>
    /\ pc' = [pc EXCEPT ![t] = "report"]
    /\ UNCHANGED <<now, root, stats, tracker, active_stack, this, found, seen>>

\* a call of report(), counted
ReportBegin(t) ==
    /\ nreports < MaxReports
    /\ nreports' = nreports + 1
    /\ ReportEnter(t)

\* a call of report() by a thread that calls it again and again
ReportAgain(t) ==
    /\ nreports' = nreports
    /\ ReportEnter(t)

\* Lines 87-103: one iteration of the loop of the innermost print_stats call:
\* the row of one entry not yet visited (unordered_map order is unspecified),
\* then the recursive call on its children when it has any.
ReportRow(t) ==
    /\ pc[t] = "report"
    /\ frames # <<>>
    /\ LET top == frames[Len(frames)]
       IN  \E s \in top.pending :
             LET rest == [frames EXCEPT ![Len(frames)].pending = @ \ {s}]
             IN  /\ out' = Append(out, Row(s, top.indent, top.parent_time))
                 /\ frames' = Unwind(
                        IF stats[s].children # {}
                        THEN Append(rest, [pending |-> stats[s].children,
                                           indent |-> top.indent + 1,
                                           parent_time |-> stats[s].total_time])
                        ELSE rest)
    /\ UNCHANGED <<now, root, stats, mutex, pc, tracker, active_stack, this, found,
                   seen, snap, nreports>>

\* Line 52: the closing banner, once print_stats has returned
ReportClose(t) ==
    /\ pc[t] = "report"
    /\ frames = <<>>
    /\ out' = Append(out, [kind |-> "close"])
    /\ pc' = [pc EXCEPT ![t] = "report_end"]
    /\ UNCHANGED <<now, root, stats, mutex, tracker, active_stack, this, found, seen,
                   frames, snap, nreports>>

\* Line 53: the lock_guard releases the mutex; the written text is gone
ReportReturn(t) ==
    /\ pc[t] = "report_end"
    /\ mutex' = Unlock(t)
    /\ out' = <<>>
    /\ snap' = <<>>
    /\ pc' = [pc EXCEPT ![t] = "idle"]
    /\ UNCHANGED <<now, root, stats, tracker, active_stack, this, found, seen,
                   frames, nreports>>

Next ==
    \/ Tick
    \/ \E t \in Threads, n \in Names : CtorFind(t, n)
    \/ \E t \in Threads : CtorLink(t)
    \/ \E t \in Threads : DtorEnter(t)
    \/ \E t \in Threads : DtorLock(t)
    \/ \E t \in Threads : DtorRecord(t)
    \/ \E t \in Threads : ReportBegin(t)
    \/ \E t \in Threads : ReportRow(t)
    \/ \E t \in Threads : ReportClose(t)
    \/ \E t \in Threads : ReportReturn(t)

Spec == Init /\ [][Next]_vars

\* ------------------------------------------------- contention for the mutex
\* The same operations with the clock standing still, at most MaxContenders
\* trackers, and report() callable without end, so that the mutex can stay
\* contended for ever.
MaxContenders == 2

NextLive ==
    \/ \E t \in Threads, n \in Names : Len(tracker) < MaxContenders /\ CtorFind(t, n)
    \/ \E t \in Threads : CtorLink(t)
    \/ \E t \in Threads : DtorEnter(t)
    \/ \E t \in Threads : DtorLock(t)
    \/ \E t \in Threads : DtorRecord(t)
    \/ \E t \in Threads : ReportAgain(t)
    \/ \E t \in Threads : ReportRow(t)
    \/ \E t \in Threads : ReportClose(t)
    \/ \E t \in Threads : ReportReturn(t)

\* a thread inside a constructor, destructor or report() goes on running
Running(t) ==
    /\ WF_vars(CtorLink(t))
    /\ WF_vars(DtorRecord(t))
    /\ WF_vars(ReportRow(t))
    /\ WF_vars(ReportClose(t))
    /\ WF_vars(ReportReturn(t))

\* std::mutex::lock: a waiting thread takes the mutex if it stays free; the
\* standard promises no more
LiveSpec ==
    /\ Init
    /\ [][NextLive]_vars
    /\ \A t \in Threads : Running(t) /\ WF_vars(DtorLock(t))

TypeOK ==
    /\ now \in 0..MaxTime
    /\ mutex \in Threads \cup {Null}
    /\ root \subseteq NodeIds
    /\ \A s \in NodeIds : stats[s].children \subseteq NodeIds
    /\ \A t \in Threads :
         pc[t] \in {"idle", "ctor", "dtor_wait", "dtor_cs", "report", "report_end"}

\* --------------------------------------------------- vocabulary of the claims
Trackers == 1..Len(tracker)

\* constructed and not yet settled
Open(k) == tracker[k].state \in {"armed", "dtor"}
Settled(k) == tracker[k].state = "settled"

\* the nodes reachable from the root table through children maps
RECURSIVE Reach(_)
Reach(S) ==
    LET more == S \cup UNION {stats[s].children : s \in S}
    IN  IF more = S THEN S ELSE Reach(more)

TreeNodes == Reach(root)

\* the settled trackers that folded their duration into node s
SettledOn(s) == {k \in Trackers : Settled(k) /\ tracker[k].current_stats = s}

RECURSIVE SumDuration(_)
SumDuration(K) ==
    IF K = {} THEN 0
    ELSE LET k == CHOOSE x \in K : TRUE
         IN  tracker[k].duration + SumDuration(K \ {k})

RECURSIVE SumSquares(_)
SumSquares(K) ==
    IF K = {} THEN 0
    ELSE LET k == CHOOSE x \in K : TRUE
         IN  tracker[k].duration * tracker[k].duration + SumSquares(K \ {k})

RECURSIVE SumCalls(_)
SumCalls(S) ==
    IF S = {} THEN 0
    ELSE LET s == CHOOSE x \in S : TRUE
         IN  stats[s].call_count + SumCalls(S \ {s})

\* a thread is inside a step that reads or writes the shared tree
InTree(t) == pc[t] \in {"ctor", "dtor_cs", "report", "report_end"}

\* the tracker that was on top of the stack when open tracker k was pushed
Below(k) ==
    LET st == active_stack[tracker[k].owner]
        i  == CHOOSE j \in 1..Len(st) : st[j] = k
    IN  IF i = 1 THEN Null ELSE st[i - 1]

OnStack(k) == \E j \in 1..Len(active_stack[tracker[k].owner]) :
                 active_stack[tracker[k].owner][j] = k

\* ------------------------------------------------------------------- claims

\* C1: when M threads with empty stacks each construct and destroy one
\* SectionProfiler of the same name, in any interleaving, the root table ends
\* with exactly one node of that name, with call_count = M and total_time =
\* the sum of the M durations.
C1_ConcurrentAccumulation ==
    ( /\ Trackers # {}
      /\ \A k \in Trackers : Settled(k) /\ tracker[k].parent_stats = Null
      /\ \A k1, k2 \in Trackers :
           /\ tracker[k1].name = tracker[k2].name
           /\ (k1 # k2 => tracker[k1].owner # tracker[k2].owner) )
    => \E s \in root :
         /\ Lookup(root, tracker[1].name) = {s}
         /\ stats[s].call_count = Len(tracker)
         /\ stats[s].total_time = SumDuration(Trackers)

\* C2: every step that reads or writes the root table, a children map or a
\* node's statistics is made by a thread that holds the global mutex, so no
\* two threads are inside such a step at once.
C2_TreeAccessUnderMutex ==
    /\ \A t \in Threads : InTree(t) => mutex = t
    /\ \A t1, t2 \in Threads : InTree(t1) /\ InTree(t2) => t1 = t2

\* C3: between the first and the last step of one report traversal no node is
\* added to the root table or a children map and no node's statistics change.
C3_ReportSnapshot ==
    \A t \in Threads :
        pc[t] \in {"report", "report_end"} =>
            /\ snap[1].root = root
            /\ snap[1].stats = stats

\* C4: the owning node of a tracker constructed over tracker A is the child
\* named after it of A's owning node and no entry of the root table; the
\* owning node of a tracker constructed on an empty stack is the root-table
\* entry with its name.
C4_NestingAttribution ==
    \A k \in Trackers :
        (Open(k) /\ OnStack(k)) =>
            LET own == tracker[k].current_stats
            IN  /\ stats[own].name = tracker[k].name
                /\ IF Below(k) = Null
                   THEN own \in root
                   ELSE /\ own \in stats[tracker[Below(k)].current_stats].children
                        /\ own \notin root

\* C5: two trackers resolve to the same node if and only if they have the
\* same name and the same parent node (or both none).
C5_SameNodeIffSameKey ==
    \A k1, k2 \in Trackers :
        (tracker[k1].current_stats # Null /\ tracker[k2].current_stats # Null) =>
            ( tracker[k1].current_stats = tracker[k2].current_stats
              <=> ( /\ tracker[k1].name = tracker[k2].name
                    /\ tracker[k1].parent_stats = tracker[k2].parent_stats ) )

RECURSIVE MinDuration(_)
MinDuration(K) ==
    LET k == CHOOSE x \in K : TRUE
    IN  IF K = {k} THEN tracker[k].duration
        ELSE Min(tracker[k].duration, MinDuration(K \ {k}))

RECURSIVE MaxDuration(_)
MaxDuration(K) ==
    LET k == CHOOSE x \in K : TRUE
    IN  IF K = {k} THEN tracker[k].duration
        ELSE Max(tracker[k].duration, MaxDuration(K \ {k}))

\* C6: a node into which N >= 1 durations were folded has call_count = N,
\* total_time = their sum, min_time = their minimum, max_time = their maximum
\* and sum_squares = the sum of their squares, whatever the order of folding.
C6_FoldedStatistics ==
    \A s \in NodeIds :
        LET K == SettledOn(s)
        IN  K # {} =>
              /\ stats[s].call_count = Cardinality(K)
              /\ stats[s].total_time = SumDuration(K)
              /\ stats[s].min_time = MinDuration(K)
              /\ stats[s].max_time = MaxDuration(K)
              /\ stats[s].sum_squares = SumSquares(K)

\* two different durations have been folded into one node
C6_Witness ==
    \E s \in NodeIds : \E k1, k2 \in SettledOn(s) :
        tracker[k1].duration < tracker[k2].duration

\* C7: every tracker settles exactly once, so the call_counts of the nodes of
\* the tree add up to the number of settled trackers, and to the number of
\* trackers ever constructed when none is open.
C7_CallsEqualSettled ==
    /\ SumCalls(TreeNodes) = Cardinality({k \in Trackers : Settled(k)})
    /\ (\A k \in Trackers : Settled(k)) => SumCalls(TreeNodes) = Len(tracker)

\* the same count over every node ever allocated, linked in the tree or not
CallsEqualSettledOnHeap ==
    SumCalls(NodeIds) = Cardinality({k \in Trackers : Settled(k)})

\* C8: a node, once in the tree, is never removed from it, so the node an open
\* tracker refers to is still a node of the tree when the tracker settles.
C8_NodesStay ==
    [][\A s \in NodeIds : s \in TreeNodes => s \in TreeNodes']_vars

\* C9: a node with call_count > 0 has min_time <= average <= max_time and a
\* non-negative variance (both multiplied out by call_count), and every row
\* of a report carries a non-negative variance.
C9_MeanAndVariance ==
    /\ \A s \in NodeIds :
         stats[s].call_count > 0 =>
           /\ stats[s].min_time * stats[s].call_count <= stats[s].total_time
           /\ stats[s].total_time <= stats[s].max_time * stats[s].call_count
           /\ stats[s].sum_squares * stats[s].call_count
                >= stats[s].total_time * stats[s].total_time
    /\ \A i \in 1..Len(out) :
         out[i].kind = "row" => out[i].variance[1] >= 0 /\ out[i].variance[2] > 0

\* a node holds two different durations, so its variance is positive
C9_Witness ==
    \E s \in NodeIds :
        /\ stats[s].call_count > 1
        /\ stats[s].min_time < stats[s].max_time
        /\ stats[s].sum_squares * stats[s].call_count
             > stats[s].total_time * stats[s].total_time

\* C10: a report row of a root-table node carries 100 percent; the row of a
\* child carries 100 percent when its parent's total_time is <= 0 and
\* total_time / parent's total_time * 100 otherwise.
C10_PercentOfParent ==
    \A i \in 1..Len(out) :
        out[i].kind = "row" =>
            LET s == out[i].node
            IN  /\ s \in root => out[i].pct = <<100, 1>>
                /\ \A p \in NodeIds :
                     s \in stats[p].children =>
                        out[i].pct = IF stats[p].total_time <= 0 THEN <<100, 1>>
                                     ELSE <<stats[s].total_time * 100, stats[p].total_time>>

\* a report has written the row of a root node with time on it and the row of
\* a child whose parent has time on it, at a percentage other than 100
C10_Witness ==
    /\ \E i \in 1..Len(out) :
         /\ out[i].kind = "row"
         /\ out[i].node \in root
         /\ out[i].total > 0
    /\ \E i \in 1..Len(out) : \E p \in NodeIds :
         /\ out[i].kind = "row"
         /\ out[i].node \in stats[p].children
         /\ stats[p].total_time > 0
         /\ out[i].pct # <<100, 1>>

\* the rows of the running report, in the order written
Rows == {i \in 1..Len(out) : out[i].kind = "row"}

\* C11: a node whose call_count is 0 when the report runs is rendered with
\* average, minimum, maximum and standard deviation 0, and no row carries the
\* initial min_time of +infinity.
C11_EmptyNodeRow ==
    \A i \in Rows :
        /\ out[i].min # Infinity
        /\ stats[out[i].node].call_count = 0 =>
             /\ out[i].avg[1] = 0
             /\ out[i].min = 0
             /\ out[i].max = 0
             /\ out[i].variance[1] = 0

\* a report has written the row of a node whose tracker is still open
C11_Witness ==
    \E i \in Rows :
        /\ stats[out[i].node].call_count = 0
        /\ stats[out[i].node].min_time = Infinity
        /\ \E k \in Trackers : Open(k) /\ tracker[k].current_stats = out[i].node

\* the nodes reachable from a root table rt through the children maps of heap st
RECURSIVE ReachIn(_, _)
ReachIn(st, S) ==
    LET more == S \cup UNION {st[s].children : s \in S}
    IN  IF more = S THEN S ELSE ReachIn(st, more)

\* the running report has left print_stats
TraversalDone ==
    \E t \in Threads : (pc[t] = "report" /\ frames = <<>>) \/ pc[t] = "report_end"

\* C12: a report on a tree no tracker ever touched writes the two banner
\* lines and no row; in general it writes exactly one row per node of the tree
\* as it is when report() is called, a node's row before its children's rows.
C12_OneRowPerNode ==
    /\ \A i, j \in Rows : out[i].node = out[j].node => i = j
    /\ \A i, j \in Rows : out[j].node \in stats[out[i].node].children => i < j
    /\ TraversalDone =>
         {out[i].node : i \in Rows} = ReachIn(snap[1].stats, snap[1].root)
    /\ (\E t \in Threads : pc[t] = "report_end") /\ tracker = <<>> =>
         out = <<[kind |-> "open"], [kind |-> "close"]>>

\* the banner-only part of C12 alone
EmptyReportOnlyBanners ==
    (\E t \in Threads : pc[t] \in {"report", "report_end"}) /\ tracker = <<>> =>
        Rows = {}

\* the armed and not yet settled trackers of a thread
OpenOf(t) == {k \in Trackers : tracker[k].owner = t /\ Open(k)}

\* C13: each thread's active stack holds exactly its open trackers, in the
\* order of their arming, and the entry a destructor is about to pop is the
\* tracker being destroyed; so the stack is empty when the thread has no open
\* tracker.
C13_StackIsLifo ==
    \A t \in Threads :
        LET st == active_stack[t]
        IN  /\ Len(st) = Cardinality(OpenOf(t))
            /\ \A i \in 1..Len(st) : st[i] \in OpenOf(t)
            /\ \A i, j \in 1..Len(st) : i < j => st[i] < st[j]
            /\ pc[t] \in {"dtor_wait", "dtor_cs"} =>
                 st # <<>> /\ st[Len(st)] = this[t]

\* a nested tracker has settled and been popped while its outer one stays on
\* the stack
C13_Witness ==
    \E t \in Threads : \E k1, k2 \in Trackers :
        /\ active_stack[t] = <<k1>>
        /\ k1 < k2
        /\ tracker[k2].owner = t
        /\ Settled(k2)
        /\ tracker[k2].parent_stats = tracker[k1].current_stats

\* the parent of every tracker is the owning node of the tracker under it on
\* its own thread's stack, and none when that stack holds nothing under it
ParentFromOwnStack ==
    \A k \in Trackers :
        LET st == active_stack[tracker[k].owner]
        IN  /\ tracker[k].state = "ctor" =>
                 tracker[k].parent_stats =
                    IF st = <<>> THEN Null ELSE tracker[st[Len(st)]].current_stats
            /\ (Open(k) /\ OnStack(k)) =>
                 tracker[k].parent_stats =
                    IF Below(k) = Null THEN Null
                    ELSE tracker[Below(k)].current_stats

C16_StatsMonotone ==
    [][ \A s \in NodeIds :
          /\ stats'[s].call_count >= stats[s].call_count
          /\ stats'[s].total_time >= stats[s].total_time
          /\ stats'[s].max_time >= stats[s].max_time
          /\ stats'[s].min_time <= stats[s].min_time
      ]_vars

\* two durations above zero have been folded into one node
C16_Witness ==
    \E s \in NodeIds :
        /\ stats[s].call_count >= 2
        /\ stats[s].min_time > 0
        /\ stats[s].total_time > stats[s].max_time

\* C17: a step that settles a tracker changes only the statistics fields of
\* the tracker's owning node and pops only the top of its own thread's stack;
\* a tracker's owning-node reference never changes once set; a step of
\* report() changes no node and no stack.
C17_FrameOfSettle ==
    [][ /\ \A k \in Trackers :
             (Open(k) /\ tracker'[k].state = "settled") =>
                LET own == tracker[k].current_stats
                    t   == tracker[k].owner
                IN  /\ Len(stats') = Len(stats)
                    /\ \A s \in NodeIds \ {own} : stats'[s] = stats[s]
                    /\ stats'[own].children = stats[own].children
                    /\ stats'[own].name = stats[own].name
                    /\ root' = root
                    /\ \A u \in Threads \ {t} : active_stack'[u] = active_stack[u]
                    /\ active_stack[t] = Append(active_stack'[t], k)
        /\ \A k \in Trackers :
             tracker[k].current_stats # Null =>
                tracker'[k].current_stats = tracker[k].current_stats
        /\ out' # out =>
             stats' = stats /\ root' = root /\ active_stack' = active_stack
      ]_vars

\* a tracker has settled on a node that has children while another node
\* holds statistics and another thread has a tracker open
C17_Witness ==
    \E k \in Trackers :
        /\ Settled(k)
        /\ stats[tracker[k].current_stats].children # {}
        /\ \E s \in NodeIds \ {tracker[k].current_stats} : stats[s].call_count > 0
        /\ \E u \in Threads \ {tracker[k].owner} : active_stack[u] # <<>>

\* a thread holds the mutex exactly while it is inside the locked part of a
\* destructor or of report(), so it never locks a mutex it holds
HeldOnlyInside ==
    \A t \in Threads : mutex = t <=> pc[t] \in {"dtor_cs", "report", "report_end"}

\* every acquisition is followed by a release
AlwaysReleased == \A t \in Threads : (mutex = t) ~> (mutex # t)

\* a started settlement or report completes
Completes ==
    \A t \in Threads :
        /\ (pc[t] = "dtor_wait") ~> (pc[t] = "idle")
        /\ (pc[t] = "report") ~> (pc[t] = "idle")

RECURSIVE SumTotal(_)
SumTotal(S) ==
    IF S = {} THEN 0
    ELSE LET s == CHOOSE x \in S : TRUE
         IN  stats[s].total_time + SumTotal(S \ {s})

\* no tracker is under construction, armed or being destroyed
NoneOpen == \A k \in Trackers : Settled(k)

\* C19: whenever no tracker is open, the total_time of a node's children add
\* up to at most the node's total_time, and every row a report writes then
\* carries at most 100 percent.
C19_ChildrenWithinParent ==
    NoneOpen =>
        /\ \A s \in NodeIds : SumTotal(stats[s].children) <= stats[s].total_time
        /\ \A i \in Rows : out[i].pct[1] <= 100 * out[i].pct[2]

\* with every tracker settled, a report has written the row of a child that
\* has time on it, under a parent with two children
C19_Witness ==
    /\ tracker # <<>>
    /\ NoneOpen
    /\ \E i \in Rows : \E p \in NodeIds :
         /\ out[i].node \in stats[p].children
         /\ out[i].total > 0
         /\ Cardinality(stats[p].children) = 2

\* while a tracker is open a row can carry more than 100 percent
RowsAtMost100 == \A i \in Rows : out[i].pct[1] <= 100 * out[i].pct[2]
=============================================================================
